---- MODULE Spec2Model ----
(***************************************************************************)
(* Model of excitation/trajectoryGenerator.py: the Fourier trajectory      *)
(* generator (TrajectoryGenerator / OscillationGenerator) and the          *)
(* constrained search that tunes it (TrajectoryOptimizer).                 *)
(*                                                                         *)
(* Python lists are sequences; a Python index k is position k+1.  Floats   *)
(* are integers; Inf stands for float inf.  A method that can raise is an  *)
(* operator returning a record with a field exc ("" when it returned).     *)
(***************************************************************************)
EXTENDS Integers, Sequences, FiniteSets, TLC

VARIABLES
    opt,      \* the TrajectoryOptimizer object (its attributes, trajectory included)
    pc,       \* position of optimizeTrajectory
    err,      \* exception that ended optimizeTrajectory ("" if none)
    run,      \* locals of optimizeTrajectory (initial, solutions, start vector)
    ret,      \* what the last objective_func / constraint callable call gave back
    obs,      \* observation of the run: simulation calls, evaluation history
    gen,      \* a stand-alone TrajectoryGenerator
    qres,     \* result of the last call on gen
    px,       \* input of the pure function under check
    pout      \* its output

vars == <<opt, pc, err, run, ret, obs, gen, qres, px, pout>>

optVars == <<opt, pc, err, run, ret, obs>>
genVars == <<gen, qres>>
pureVars == <<px, pout>>

----------------------------------------------------------------------------
(* Bounds of the model *)

MaxDofs == 2          \* largest number of degrees of freedom
MaxNf == 2            \* largest harmonic count of the stand-alone generator / codec
MaxEvals == 2         \* calls a backend makes into the optimizer during one run
RecursionLimit == 2   \* nested objective_func frames before the interpreter gives up

----------------------------------------------------------------------------
(* Python values *)

None == <<>>

\* float('inf'), as np.linalg.cond gives for a rank-deficient regressor
Inf == 2000000001

Min(a, b) == IF a <= b THEN a ELSE b

Max(a, b) == IF a >= b THEN a ELSE b

\* Python s[lo:hi] for 0 <= lo, 0 <= hi
PySlice(s, lo, hi) ==
    LET l == Min(lo, Len(s))
        h == Max(Min(hi, Len(s)), l)
    IN  [k \in 1..(h - l) |-> s[l + k]]

\* np.split(s, n) for len(s) divisible by n: n rows of len(s)/n entries
NpSplit(s, n) ==
    LET m == Len(s) \div n
    IN  [r \in 1..n |-> [c \in 1..m |-> s[(r - 1) * m + c]]]

\* [v]*n
Rep(v, n) == [k \in 1..n |-> v]

\* row-major flattening of a matrix with rows rows and cols columns
RowMajor(mat, rows, cols) ==
    [k \in 1..(rows * cols) |-> mat[((k - 1) \div cols) + 1][((k - 1) % cols) + 1]]

SeqAll(s, P(_)) == \A k \in 1..Len(s) : P(s[k])

\* float addition with inf
FAdd(a, b) == IF a = Inf \/ b = Inf THEN Inf ELSE a + b

----------------------------------------------------------------------------
(* Configuration read by TrajectoryOptimizer.__init__ *)

NF == 4                \* self.nf = [4]*self.dofs
wf_min == 1            \* config['trajectoryPulseMin']
wf_max == 3            \* config['trajectoryPulseMax']
wf_init == 2           \* config['trajectoryPulseInit']
qmin == -1             \* config['trajectoryAngleMin']
qmax == 1              \* config['trajectoryAngleMax']
amin == -2             \* config['trajectoryCoeffMin'] (also bmin)
amax == 2              \* config['trajectoryCoeffMax'] (also bmax)
trajectorySpeed == 1   \* config['trajectorySpeed']
min_tol_constr == 1    \* config['min_tol_constr']

\* URDFHelpers.getJointLimits: the same limits for every joint
limits == [lower |-> -2, upper |-> 2, velocity |-> 30, torque |-> 20]

\* 10e10, the start value of last_best_f: above every finite objective, below inf
InitBestF == 2000000000

PenaltyF == 10000      \* f = 10000.0
PenaltyG == 10         \* g = [10.0]*self.dofs*5
ConstDefault == -1     \* lambda x: -1

----------------------------------------------------------------------------
(* TrajectoryOptimizer: parameter vector *)

\* ainit / binit as __init__ fills them
InitCoeffs(D, n) == [i \in 1..D |-> [j \in 1..n |-> trajectorySpeed]]

\* initial = [v.value for v in opt_prob._variables.values()] after the addVar calls
BuildInitial(D, n, wf0, a0, b0) ==
    <<wf0>> \o Rep(0, D) \o RowMajor(a0, D, n) \o RowMajor(b0, D, n)

vecToParams_shifted(x, D, n) ==
    LET ab_len == D * n
    IN  [wf |-> x[1],
         q  |-> PySlice(x, 1, D + 1),
         a  |-> NpSplit(PySlice(x, D, D + ab_len), D),
         b  |-> NpSplit(PySlice(x, D + 1 + ab_len, D + 1 + ab_len * 2), D)]

vecToParams(x, D, n) ==
    LET ab_len == D * n
    IN  [wf |-> x[1],
         q  |-> PySlice(x, 1, D + 1),
         a  |-> NpSplit(PySlice(x, D + 1, D + 1 + ab_len), D),
         b  |-> NpSplit(PySlice(x, D + 1 + ab_len, D + 1 + ab_len * 2), D)]

testBounds_wf_only(x, D, n) ==
    LET p == vecToParams(x, D, n)
    IN  p.wf >= wf_min /\ p.wf <= wf_max

testBounds(x, D, n) ==
    LET p == vecToParams(x, D, n)
        wf_t == p.wf >= wf_min /\ p.wf <= wf_max
        q_t == SeqAll(p.q, LAMBDA v : v <= qmax) /\ SeqAll(p.q, LAMBDA v : v >= qmin)
        a_t == \A i \in 1..Len(p.a) : SeqAll(p.a[i], LAMBDA v : v <= amax /\ v >= amin)
        b_t == \A i \in 1..Len(p.b) : SeqAll(p.b[i], LAMBDA v : v <= amax /\ v >= amin)
    IN  wf_t /\ q_t /\ a_t /\ b_t

----------------------------------------------------------------------------
(* TrajectoryOptimizer.testConstraints: the result and the printed blocks *)

\* np.where(np.array(g) >= tol), as Python indices
WhereGe(g) == {k \in 0..(Len(g) - 1) : g[k + 1] >= min_tol_constr}

testConstraints(g, D) ==
    LET res == \A k \in 1..Len(g) : g[k] <= min_tol_constr
        hit(lo, hi) == \E k \in lo..(hi - 1) : k \in WhereGe(g)
    IN  [res |-> res,
         printed |->
            IF res THEN {}
            ELSE (IF hit(1, 2 * D) THEN {"angle limits"} ELSE {})
                 \cup (IF hit(2 * D, 3 * D) THEN {"max velocity limits"} ELSE {})
                 \cup (IF hit(3 * D, 4 * D) THEN {"max torque limits"} ELSE {})
                 \cup (IF hit(4 * D, 5 * D) THEN {"min velocity limits"} ELSE {})]

----------------------------------------------------------------------------
(* OscillationGenerator and TrajectoryGenerator *)

\* An oscillator.  q0 is float(q0), passed through np.deg2rad when use_deg; the
\* conversions are kept as marks on the value (rad2deg: the caller converted
\* the drawn offset to degrees before the call)
Osc(w_f, a, b, q0, rad2deg, n, use_deg) ==
    [w_f |-> w_f, a |-> a, b |-> b,
     q0 |-> [v |-> q0, rad2deg |-> rad2deg, deg2rad |-> use_deg],
     nf |-> n, use_deg |-> use_deg]

OscillationGenerator(w_f, a, b, q0, n, use_deg) == Osc(w_f, a, b, q0, FALSE, n, use_deg)

\* TrajectoryGenerator.__init__; the attribute time does not exist yet
NewTrajectoryGenerator(D, use_deg) ==
    [dofs |-> D, oscillators |-> <<>>, use_deg |-> use_deg, w_f_global |-> 1,
     has_time |-> FALSE, time |-> 0]

\* the oscillators the loop of initWithParams appends, up to the first index
\* that a or b does not have
BuiltOscillators(t, a, b, q, nfl, wg) ==
    LET ok(i) == i <= Len(a) /\ i <= Len(b)
        upto == IF \A i \in 1..t.dofs : ok(i) THEN t.dofs
                ELSE (CHOOSE i \in 1..t.dofs : ~ok(i) /\ \A j \in 1..(i - 1) : ok(j)) - 1
    IN  [i \in 1..upto |-> OscillationGenerator(wg, a[i], b[i], q[i], nfl[i], t.use_deg)]

initWithParams_late_check(t, a, b, q, nfl, wf) ==
    LET wg == IF wf /= None /\ wf[1] /= 0 THEN wf[1] ELSE t.w_f_global
    IN  IF Len(nfl) /= t.dofs \/ Len(q) /= t.dofs
        THEN [t |-> [t EXCEPT !.w_f_global = wg], exc |-> "Exception"]
        ELSE [t |-> [t EXCEPT !.w_f_global = wg,
                              !.oscillators = BuiltOscillators(t, a, b, q, nfl, wg)],
              exc |-> IF Len(a) < t.dofs \/ Len(b) < t.dofs THEN "IndexError" ELSE ""]

\* wf is None or <<value>>
initWithParams(t, a, b, q, nfl, wf) ==
    LET wg == IF wf /= None /\ wf[1] /= 0 THEN wf[1] ELSE t.w_f_global
    IN  IF Len(nfl) /= t.dofs \/ Len(q) /= t.dofs
        THEN [t |-> t, exc |-> "Exception"]
        ELSE [t |-> [t EXCEPT !.w_f_global = wg,
                              !.oscillators = BuiltOscillators(t, a, b, q, nfl, wg)],
              exc |-> IF Len(a) < t.dofs \/ Len(b) < t.dofs THEN "IndexError" ELSE ""]

\* self.oscillators[dof]: Python list indexing, negative indices count from the end
PyIndex(s, k) ==
    IF k >= 0 /\ k < Len(s) THEN [exc |-> "", pos |-> k + 1]
    ELSE IF k < 0 /\ k >= -Len(s) THEN [exc |-> "", pos |-> Len(s) + k + 1]
    ELSE [exc |-> "IndexError", pos |-> 0]

\* getAngle / getVelocity / getAcceleration(dof): which oscillator is evaluated,
\* at which time, or the exception
Query(t, what, dof) ==
    LET ix == PyIndex(t.oscillators, dof)
    IN  IF ix.exc /= "" THEN [what |-> what, dof |-> dof, exc |-> ix.exc, osc |-> 0, time |-> 0]
        ELSE IF ~t.has_time
             THEN [what |-> what, dof |-> dof, exc |-> "AttributeError", osc |-> 0, time |-> 0]
             ELSE [what |-> what, dof |-> dof, exc |-> "", osc |-> ix.pos, time |-> t.time]

\* one draw of initWithRandomParams for a joint: nf from randint(1,4), q in
\* [-1,1), a and b in [-max/2, max/2) with max = 2-|q|
RandomDraws ==
    {[nf |-> n, q |-> q, a |-> Rep(va, n), b |-> Rep(vb, n)] :
        n \in {1, 3}, q \in {-1, 0}, va \in {0}, vb \in {0}}

DrawOk(d) ==
    LET mx == 2 - (IF d.q < 0 THEN -d.q ELSE d.q)
    IN  /\ SeqAll(d.a, LAMBDA v : 2 * v >= -mx /\ 2 * v < mx)
        /\ SeqAll(d.b, LAMBDA v : 2 * v >= -mx /\ 2 * v < mx)

\* draws: one RandomDraws element per joint
initWithRandomParams(t, draws) ==
    [t EXCEPT !.oscillators =
        [i \in 1..t.dofs |-> Osc(t.w_f_global, draws[i].a, draws[i].b, draws[i].q,
                                 t.use_deg, draws[i].nf, t.use_deg)]]

setTime(t, time) == [t EXCEPT !.has_time = TRUE, !.time = time]

\* the record of a call on a generator
\* bad: the call was made with len(nf) != dofs or len(q) != dofs
\* all_ok: no initWithParams / initWithRandomParams call on it has raised so far
NoCall ==
    [op |-> "none", exc |-> "", dof |-> 0, osc |-> 0, time |-> 0, wf |-> None, bad |-> FALSE,
     all_ok |-> TRUE]

----------------------------------------------------------------------------
(* TrajectoryOptimizer: the object and objective_func *)

\* what sim_func gives back, reduced to what objective_func reads: the condition
\* number of model.YBase and, per joint, min and max position, max |velocity|
\* and max |torque|
NominalJoint == [pmin |-> -1, pmax |-> 1, vmax |-> 10, tmax |-> 10]

\* the object after __init__, with the backend flags as the caller set them;
\* defined: the attributes among iter_cnt, last_g, constr that exist
NewOptimizer(D, config, useScipy, useNLopt) ==
    [dofs |-> D, nf |-> Rep(NF, D), config |-> config,
     useScipy |-> useScipy, useNLopt |-> useNLopt,
     last_best_f |-> InitBestF, last_best_sol |-> None,
     trajectory |-> NewTrajectoryGenerator(D, config.useDeg),
     defined |-> {}, iter_cnt |-> 0, last_g |-> None, constr |-> <<>>]

\* a constraint callable: lambda x: -1 (rec FALSE), or the lambda of line 360
\* bound to index i of the frame that made it (rec TRUE)
ConstLambda == [rec |-> FALSE, i |-> 0]
RecLambda(i) == [rec |-> TRUE, i |-> i]

initGraph(s) ==
    [s EXCEPT !.defined = @ \cup {"iter_cnt", "last_g"}
                            \cup (IF s.useScipy \/ s.useNLopt THEN {"constr"} ELSE {}),
              !.iter_cnt = 0,
              !.last_g = None,
              !.constr = IF s.useScipy \/ s.useNLopt THEN Rep(ConstLambda, s.dofs * 5) ELSE @]

\* return values and exceptions of objective_func and of a constraint callable
NoRet == [kind |-> "none", f |-> 0, g |-> <<>>, fail |-> 0, val |-> 0, exc |-> ""]
RetF(f) == [NoRet EXCEPT !.kind = "f", !.f = f]
RetFG(f, g, fail) == [NoRet EXCEPT !.kind = "fgfail", !.f = f, !.g = g, !.fail = fail]
RetConstr == [NoRet EXCEPT !.kind = "constr"]
RetVal(v) == [NoRet EXCEPT !.kind = "value", !.val = v]
Raised(e) == [NoRet EXCEPT !.kind = "raise", !.exc = e]

\* g of lines 323-336 from the simulated motion of so
ConstraintVector(D, so) ==
    [k \in 1..(5 * D) |->
        LET n == ((k - 1) % D) + 1
            j == so.joints[n]
            block == (k - 1) \div D
        IN  CASE block = 0 -> limits.lower - j.pmin
              [] block = 1 -> j.pmax - limits.upper
              [] block = 2 -> j.vmax - limits.velocity
              [] block = 3 -> j.tmax - limits.torque
              [] OTHER     -> (limits.velocity \div 10) - j.vmax]

RECURSIVE SumTorqueDeficit(_, _)
\* f1: the positive parts of 0.1*torque limit - max |torque|, summed over joints 1..n
SumTorqueDeficit(so, n) ==
    IF n = 0 THEN 0
    ELSE LET f_tmp == (limits.torque \div 10) - so.joints[n].tmax
         IN  SumTorqueDeficit(so, n - 1) + (IF f_tmp > 0 THEN f_tmp ELSE 0)

\* f of lines 313 and 346-347
ObjectiveValue(D, so) ==
    LET f1 == SumTorqueDeficit(so, D)
    IN  IF f1 > 0 THEN FAdd(so.cond, f1) ELSE so.cond

Penalty_no_decrement(s) ==
    [s |-> [s EXCEPT !.iter_cnt = @ + 1],
     ret |-> IF s.useScipy \/ s.useNLopt THEN RetF(PenaltyF)
             ELSE RetFG(PenaltyF, Rep(PenaltyG, s.dofs * 5), 1),
     sims |-> 0]

\* lines 288-300, after the increment of line 279: the counter is taken back
Penalty(s) ==
    [s |-> [s EXCEPT !.iter_cnt = (@ + 1) - 1],
     ret |-> IF s.useScipy \/ s.useNLopt THEN RetF(PenaltyF)
             ELSE RetFG(PenaltyF, Rep(PenaltyG, s.dofs * 5), 1),
     sims |-> 0]

\* lines 368-371
KeepBest(s, c, f, x) ==
    IF c /\ f < s.last_best_f
    THEN [s EXCEPT !.last_best_f = f, !.last_best_sol = x]
    ELSE s

\* lines 302-375 for an in-bounds x
Evaluate(s, x, constr, so) ==
    LET D == s.dofs
        p == vecToParams(x, D, s.nf[1])
        tr == initWithParams(s.trajectory, p.a, p.b, p.q, s.nf, <<p.wf>>)
        f == ObjectiveValue(D, so)
        g == ConstraintVector(D, so)
        c == testConstraints(g, D).res
        s1 == [s EXCEPT !.iter_cnt = @ + 1, !.trajectory = tr.t,
                        !.last_g = g, !.defined = @ \cup {"last_g"}]
        ext == s.useScipy \/ s.useNLopt
    IN  IF ext /\ "constr" \notin s.defined
        THEN [s |-> s1, ret |-> Raised("AttributeError"), sims |-> 1]
        ELSE IF ext /\ constr
        THEN \* the loop of line 358 returns in its first round
             [s |-> [s1 EXCEPT !.constr[1] = RecLambda(0)], ret |-> RetConstr, sims |-> 1]
        ELSE LET s2 == IF ext THEN [s1 EXCEPT !.constr = Rep(RecLambda(Len(g) - 1), Len(g))]
                       ELSE s1
             IN  [s |-> KeepBest(s2, c, f, x),
                  ret |-> IF ext THEN RetF(f) ELSE RetFG(f, g, 0),
                  sims |-> 1]

\* objective_func(x, constr) with so what the simulation would give for x
objective_func(s, x, constr, so) ==
    IF "iter_cnt" \notin s.defined
    THEN [s |-> s, ret |-> Raised("AttributeError"), sims |-> 0]
    ELSE IF ~testBounds(x, s.dofs, s.nf[1])
    THEN Penalty(s)
    ELSE Evaluate(s, x, constr, so)

RECURSIVE CallLambda(_, _, _, _, _, _)
\* self.constr[k]['fun'](x) with this many objective_func frames already on the
\* stack; deep: the interpreter's limit is hit after line 279 of the frame that
\* exceeds it rather than on entering it.  calls: objective_func calls made.
CallLambda(s, k, x, so, depth, deep) ==
    LET lam == s.constr[k + 1]
    IN  IF ~lam.rec THEN [s |-> s, ret |-> RetVal(ConstDefault), sims |-> 0, calls |-> 0]
        ELSE IF depth >= RecursionLimit
        THEN [s |-> IF deep THEN [s EXCEPT !.iter_cnt = @ + 1] ELSE s,
              ret |-> Raised("RuntimeError"), sims |-> 0,
              calls |-> IF deep THEN 1 ELSE 0]
        ELSE LET r == objective_func(s, x, TRUE, so)
             IN  IF r.ret.kind = "raise"
                 THEN [s |-> r.s, ret |-> r.ret, sims |-> r.sims, calls |-> 1]
                 ELSE IF r.ret.kind /= "constr"
                 THEN \* a float (or a tuple of floats) is subscripted with ['fun']
                      [s |-> r.s, ret |-> Raised("TypeError"), sims |-> r.sims, calls |-> 1]
                 ELSE LET n == CallLambda(r.s, lam.i, x, so, depth + 1, deep)
                      IN  [s |-> n.s, ret |-> n.ret, sims |-> r.sims + n.sims,
                           calls |-> 1 + n.calls]

\* func(x, grad) of lines 511-522, grad.size = 0: every func reads the loop
\* variable i after the loop has ended, i = len(self.constr) - 1
CallNLoptFunc(s, x, so, deep) ==
    LET r == objective_func(s, x, TRUE, so)
    IN  IF r.ret.kind = "raise"
        THEN [s |-> r.s, ret |-> r.ret, sims |-> r.sims, calls |-> 1]
        ELSE IF r.ret.kind /= "constr"
        THEN [s |-> r.s, ret |-> Raised("TypeError"), sims |-> r.sims, calls |-> 1]
        ELSE LET n == CallLambda(r.s, Len(s.constr) - 1, x, so, 1, deep)
             IN  [s |-> n.s, ret |-> n.ret, sims |-> r.sims + n.sims, calls |-> 1 + n.calls]

----------------------------------------------------------------------------
(* Specification Spec: one run of optimizeTrajectory, the backends calling back *)

\* the vector optimizeTrajectory starts from
InitialVector(D) == BuildInitial(D, NF, wf_init, InitCoeffs(D, NF), InitCoeffs(D, NF))

\* vectors a backend proposes: the initial one and one-entry changes of it,
\* two inside the bounds, four outside (one per class w_f, q, a, b)
XCands(D) ==
    LET x0 == InitialVector(D)
        L == Len(x0)
    IN  {x0, [x0 EXCEPT ![1] = wf_max],
         [x0 EXCEPT ![1] = wf_min - 1], [x0 EXCEPT ![D + 1] = qmax + 1],
         [x0 EXCEPT ![D + 2] = amin - 1], [x0 EXCEPT ![L] = amax + 1]}

\* simulation results: every joint nominal, or joint 1 below its lower position
\* limit, or the last joint exactly at the tolerance, or joint 1 with too
\* little torque; the regressor well or badly conditioned or rank deficient
SimOuts(D) ==
    LET nom == Rep(NominalJoint, D)
        low == [nom EXCEPT ![1].pmin = limits.lower - min_tol_constr - 1]
        edge == [nom EXCEPT ![D].pmax = limits.upper + min_tol_constr]
        weak == [nom EXCEPT ![1].tmax = (limits.torque \div 10) - 1]
    IN  {[cond |-> 3, joints |-> nom], [cond |-> Inf, joints |-> nom],
         [cond |-> 3, joints |-> low], [cond |-> 5, joints |-> edge],
         [cond |-> 3, joints |-> weak]}

\* the bounds of section "parameter vector", read off the positions of x
InBounds(x, D) ==
    /\ x[1] >= wf_min /\ x[1] <= wf_max
    /\ \A k \in 2..(D + 1) : x[k] >= qmin /\ x[k] <= qmax
    /\ \A k \in (D + 2)..Len(x) : x[k] >= amin /\ x[k] <= amax

\* solutions a backend reports, also the vectors constraint callables are
\* probed with: one inside the bounds, one outside with a pulsation of zero
XReported(D) ==
    LET x0 == InitialVector(D)
    IN  {[x0 EXCEPT ![1] = wf_max], [x0 EXCEPT ![1] = wf_min - 1]}

\* the constraint indices probed: the first and the last
KProbes(D) == {0, 5 * D - 1}

Feasible(g) == \A k \in 1..Len(g) : g[k] <= min_tol_constr

\* the last call: inb tells whether its vector was inside the bounds
NoLast == [kind |-> "none", inb |-> FALSE, idx |-> 0, simd |-> 0, iter_before |-> 0]

\* the record of a call made by a backend: r what the call did, n the number of
\* objective_func calls it made, so the simulation result for x
Observe(o, s, kind, idx, x, so, r, n) ==
    LET D == s.dofs
        inb == InBounds(x, D)
        f == ObjectiveValue(D, so)
        feasible == inb /\ r.sims >= 1 /\ Feasible(ConstraintVector(D, so))
    IN  [o EXCEPT
            !.calls = @ + 1,
            !.stage_calls = @ + 1,
            !.inb = IF inb /\ "iter_cnt" \in s.defined THEN @ + n ELSE @,
            !.min_f = IF feasible /\ (o.argmin = {} \/ f < o.min_f) THEN f ELSE @,
            !.argmin = IF ~feasible THEN @
                       ELSE IF o.argmin = {} \/ f < o.min_f THEN {x}
                       ELSE IF f = o.min_f THEN @ \cup {x}
                       ELSE @,
            !.last = [kind |-> kind, inb |-> inb, idx |-> idx, simd |-> r.sims,
                      iter_before |-> s.iter_cnt]]

Modes == {"pyOpt", "useScipy", "useNLopt"}

Init ==
    /\ opt \in {NewOptimizer(D, [showOptimizationGraph |-> gr, useGlobalOptimization |-> gl,
                                 useDeg |-> FALSE],
                             m = "useScipy", m = "useNLopt") :
                    D \in 1..MaxDofs, gr \in BOOLEAN, gl \in BOOLEAN, m \in Modes}
    /\ pc = "Configured"
    /\ err = ""
    /\ run = [initial |-> None, global_sol |-> None, cache_at_local |-> None,
              start |-> None, local_sol |-> None, cache_at_term |-> None,
              chosen |-> None]
    /\ ret = NoRet
    /\ obs = [calls |-> 0, stage_calls |-> 0, inb |-> 0,
              min_f |-> 0, argmin |-> {}, last |-> NoLast]
    /\ gen = None /\ qres = NoCall /\ px = None /\ pout = None

\* lines 417-448
Start ==
    /\ pc = "Configured"
    /\ opt' = IF opt.config.showOptimizationGraph THEN initGraph(opt) ELSE opt
    /\ run' = [run EXCEPT !.initial = InitialVector(opt.dofs)]
    /\ pc' = IF opt.config.useGlobalOptimization THEN "Global" ELSE "Local"
    /\ UNCHANGED <<err, ret, obs>>

\* a backend calls the objective; the global stage leaves one call of the
\* run's budget to the local stage
BackendEval(stage) ==
    /\ pc = stage
    /\ obs.calls < (IF stage = "Global" THEN MaxEvals - 1 ELSE MaxEvals)
    /\ \E x \in XCands(opt.dofs), so \in SimOuts(opt.dofs) :
        \E r \in {objective_func(opt, x, FALSE, so)} :
            /\ opt' = r.s
            /\ ret' = r.ret
            /\ obs' = Observe(obs, opt, "objective", 0, x, so, r, 1)
            /\ pc' = IF r.ret.kind = "raise" THEN "Aborted" ELSE pc
            /\ err' = r.ret.exc
    /\ UNCHANGED run

\* ALPSO evaluates (lines 452-467)
GlobalEval == BackendEval("Global")

\* ALPSO ends and reports opt_prob.solution(0) (line 468)
GlobalDone ==
    /\ pc = "Global"
    /\ obs.stage_calls > 0
    /\ \E sol \in XReported(opt.dofs) : run' = [run EXCEPT !.global_sol = sol]
    /\ obs' = [obs EXCEPT !.stage_calls = 0]
    /\ pc' = "Local"
    /\ UNCHANGED <<opt, err, ret>>

\* the local backend is set up and given its start vector (lines 470-480,
\* 486-527, 529-562)
LocalStart ==
    /\ pc = "Local"
    /\ run' = [run EXCEPT
                !.cache_at_local = opt.last_best_sol,
                !.start = IF opt.useScipy \/ opt.useNLopt THEN run.initial
                          ELSE IF opt.config.useGlobalOptimization
                               THEN (IF opt.last_best_sol /= None THEN opt.last_best_sol
                                     ELSE run.global_sol)
                               ELSE run.initial]
    /\ IF (opt.useScipy \/ opt.useNLopt) /\ "constr" \notin opt.defined
       THEN pc' = "Aborted" /\ err' = "AttributeError"
       ELSE pc' = "LocalRun" /\ err' = err
    /\ UNCHANGED <<opt, ret, obs>>

\* COBYLA, NLopt or SLSQP evaluates
LocalEval == BackendEval("LocalRun")

\* COBYLA or NLopt calls a constraint callable
LocalConstr ==
    /\ pc = "LocalRun"
    /\ opt.useScipy \/ opt.useNLopt
    /\ obs.calls < MaxEvals
    /\ \E x \in XReported(opt.dofs), so \in SimOuts(opt.dofs),
          k \in KProbes(opt.dofs), deep \in BOOLEAN :
        \E r \in {IF opt.useScipy THEN CallLambda(opt, k, x, so, 0, deep)
                  ELSE CallNLoptFunc(opt, x, so, deep)} :
            /\ opt' = r.s
            /\ ret' = r.ret
            /\ obs' = Observe(obs, opt, "constraint", k, x, so, r, r.calls)
            /\ pc' = IF r.ret.kind = "raise" THEN "Aborted" ELSE pc
            /\ err' = r.ret.exc
    /\ UNCHANGED run

\* the local backend ends with sol; lines 564-584
LocalDone ==
    /\ pc = "LocalRun"
    /\ obs.stage_calls > 0
    /\ \E sol \in XReported(opt.dofs), so \in SimOuts(opt.dofs) :
        LET local_sol_vec == IF opt.last_best_sol /= None THEN opt.last_best_sol ELSE sol
            p == vecToParams(local_sol_vec, opt.dofs, opt.nf[1])
            s0 == [opt EXCEPT !.iter_cnt = 0, !.defined = @ \cup {"iter_cnt"}]
            r == objective_func(s0, local_sol_vec, FALSE, so)
            tr == initWithParams(r.s.trajectory, p.a, p.b, p.q, opt.nf, <<p.wf>>)
        IN  /\ run' = [run EXCEPT !.local_sol = sol, !.cache_at_term = opt.last_best_sol,
                                  !.chosen = local_sol_vec]
            /\ ret' = r.ret
            /\ obs' = Observe([obs EXCEPT !.inb = 0], s0, "objective", 0, local_sol_vec, so, r, 1)
            /\ IF r.ret.kind = "raise"
               THEN opt' = r.s /\ pc' = "Aborted" /\ err' = r.ret.exc
               ELSE /\ opt' = [r.s EXCEPT !.trajectory = tr.t]
                    /\ pc' = "Converged"
                    /\ err' = err

Next ==
    \/ (Start /\ UNCHANGED <<genVars, pureVars>>)
    \/ (GlobalEval /\ UNCHANGED <<genVars, pureVars>>)
    \/ (GlobalDone /\ UNCHANGED <<genVars, pureVars>>)
    \/ (LocalStart /\ UNCHANGED <<genVars, pureVars>>)
    \/ (LocalEval /\ UNCHANGED <<genVars, pureVars>>)
    \/ (LocalConstr /\ UNCHANGED <<genVars, pureVars>>)
    \/ (LocalDone /\ UNCHANGED <<genVars, pureVars>>)

Spec == Init /\ [][Next]_vars

\* the run goes on while a step is possible: the backends make their calls and,
\* the budget used up, end; the simulation and the callbacks return
SpecLive == Init /\ [][Next]_vars /\ WF_vars(Next)

ExtMode == opt.useScipy \/ opt.useNLopt

C2_CacheHoldsBestFeasible ==
    IF obs.argmin = {} THEN opt.last_best_sol = None
    ELSE opt.last_best_f = obs.min_f /\ opt.last_best_sol \in obs.argmin

\* the generator a vector stands for, read off the positions of the vector
ExpectedOscillators(v, D, use_deg) ==
    [i \in 1..D |->
        Osc(v[1],
            [j \in 1..NF |-> v[1 + D + (i - 1) * NF + j]],
            [j \in 1..NF |-> v[1 + D + D * NF + (i - 1) * NF + j]],
            v[1 + i], FALSE, NF, use_deg)]

\* C3: when optimizeTrajectory returns, the generator is configured with the
\* decoding of the cache vector if the cache was non-empty when the backend
\* ended, and with the decoding of the backend's reported solution otherwise.
C3_ReturnedTrajectory ==
    pc = "Converged" =>
        LET v == IF run.cache_at_term /= None THEN run.cache_at_term ELSE run.local_sol
        IN  /\ opt.trajectory.w_f_global = v[1]
            /\ opt.trajectory.oscillators
                  = ExpectedOscillators(v, opt.dofs, opt.config.useDeg)

\* C4: a local stage that runs after the global stage starts from the cache
\* vector if the cache is non-empty at that moment and from the global stage's
\* reported solution otherwise, for each local backend.
C4_LocalStartVector ==
    (pc = "LocalRun" /\ opt.config.useGlobalOptimization)
        => run.start = IF run.cache_at_local /= None THEN run.cache_at_local
                       ELSE run.global_sol

\* C5: in useScipy or useNLopt mode the constraint callable for index i, called
\* on any x, returns the i-th entry of the constraint vector of the most recent
\* evaluation.
C5_ConstraintCallable ==
    (obs.last.kind = "constraint" /\ opt.last_g /= None)
        => ret.kind = "value" /\ ret.val = opt.last_g[obs.last.idx + 1]

\* C6: the counter equals the number of objective_func calls with an in-bounds
\* vector made since it was set to 0; an out-of-bounds call leaves it at the
\* value it had before the call; after the final re-evaluation of an in-bounds
\* chosen vector it is 1.
C6_CounterCountsRealEvaluations ==
    /\ "iter_cnt" \in opt.defined => opt.iter_cnt = obs.inb
    /\ (obs.last.kind = "objective" /\ ~obs.last.inb /\ "iter_cnt" \in opt.defined)
            => opt.iter_cnt = obs.last.iter_before
    /\ pc = "Converged"
            => opt.iter_cnt = IF InBounds(run.chosen, opt.dofs) THEN 1 ELSE 0

\* a run with in-bounds and out-of-bounds calls ended with the counter at 1
C6_Witness ==
    /\ pc = "Converged" /\ opt.iter_cnt = 1 /\ obs.calls >= 2
    /\ InBounds(run.chosen, opt.dofs)

\* C12: started on a freshly constructed optimizer, optimizeTrajectory reaches
\* Converged and returns the generator, for every backend selection, when the
\* backends end after finitely many calls and the simulation returns.
C12_RunConverges == <>(pc = "Converged")

\* C13: in every configuration, showOptimizationGraph off included, iter_cnt,
\* last_g and (in useScipy / useNLopt mode) constr exist from the start of the
\* run's first stage on, and no step of the run fails reading an attribute
\* that was never set.
C13_EvaluationStateDefined ==
    /\ pc \in {"Global", "Local", "LocalRun"}
            => ({"iter_cnt", "last_g"} \cup (IF ExtMode THEN {"constr"} ELSE {}))
                    \subseteq opt.defined
    /\ err /= "AttributeError"

----------------------------------------------------------------------------
(* Specification SpecGen: a TrajectoryGenerator driven by its callers *)

TimeVals == {1}
DofArgs == (-(MaxDofs + 1))..(MaxDofs + 1)
WfArgs == {None, <<0>>, <<2>>, <<-1>>}

\* argument lists of initWithParams, uniform contents: lists of the right
\* lengths whose rows of a and b have nv entries while nf passes nfv; a and b
\* one row short; q or nf one entry short or long
ParamArgs(D) ==
    {[a |-> Rep(Rep(1, nv), D), b |-> Rep(Rep(0, nv), D),
      q |-> Rep(0, D), nf |-> Rep(nfv, D)] : nv \in 1..MaxNf, nfv \in 1..MaxNf}
    \cup {[a |-> Rep(<<1>>, D - 1), b |-> Rep(<<0>>, D - 1), q |-> Rep(0, D), nf |-> Rep(1, D)]}
    \cup {[a |-> Rep(<<1>>, D), b |-> Rep(<<0>>, D), q |-> Rep(0, l[1]), nf |-> Rep(1, l[2])] :
            l \in {<<D - 1, D>>, <<D, D - 1>>, <<D + 1, D>>, <<D, D + 1>>}}

GenInit ==
    /\ gen \in {NewTrajectoryGenerator(D, u) : D \in 1..MaxDofs, u \in BOOLEAN}
    /\ qres = NoCall
    /\ opt = None /\ pc = "idle" /\ err = "" /\ run = None /\ ret = None /\ obs = None
    /\ px = None /\ pout = None

GenInitWithParams ==
    \E args \in ParamArgs(gen.dofs), wf \in WfArgs :
        LET r == initWithParams(gen, args.a, args.b, args.q, args.nf, wf)
        IN  /\ gen' = r.t
            /\ qres' = [NoCall EXCEPT !.op = "initWithParams", !.exc = r.exc, !.wf = wf,
                                      !.bad = (Len(args.nf) /= gen.dofs \/ Len(args.q) /= gen.dofs),
                                      !.all_ok = (qres.all_ok /\ r.exc = "")]

GenInitWithRandomParams ==
    \E draws \in [1..gen.dofs -> {d \in RandomDraws : DrawOk(d)}] :
        /\ gen' = initWithRandomParams(gen, draws)
        /\ qres' = [NoCall EXCEPT !.op = "initWithRandomParams", !.all_ok = qres.all_ok]

GenSetTime ==
    \E t \in TimeVals :
        /\ gen' = setTime(gen, t)
        /\ qres' = [NoCall EXCEPT !.op = "setTime", !.time = t, !.all_ok = qres.all_ok]

GenQuery ==
    \E what \in {"getAngle", "getVelocity", "getAcceleration"}, dof \in DofArgs :
        LET r == Query(gen, what, dof)
        IN  /\ gen' = gen
            /\ qres' = [NoCall EXCEPT !.op = what, !.exc = r.exc, !.dof = dof,
                                      !.osc = r.osc, !.time = r.time, !.all_ok = qres.all_ok]

GenNext ==
    \/ (GenInitWithParams /\ UNCHANGED <<optVars, pureVars>>)
    \/ (GenInitWithRandomParams /\ UNCHANGED <<optVars, pureVars>>)
    \/ (GenSetTime /\ UNCHANGED <<optVars, pureVars>>)
    \/ (GenQuery /\ UNCHANGED <<optVars, pureVars>>)

SpecGen == GenInit /\ [][GenNext]_vars

QueryOps == {"getAngle", "getVelocity", "getAcceleration"}

\* C7: initWithParams called with len(nf) != D or len(q) != D raises the
\* configuration error and leaves the generator (oscillators, w_f_global) as it
\* was before the call, also when a wf argument was passed.
C7_FailedInitLeavesGenerator ==
    [][(qres'.op = "initWithParams" /\ qres'.bad)
        => (qres'.exc = "Exception" /\ gen' = gen)]_vars

\* an initialised generator refused a call that passed a new wf
C7_Witness ==
    /\ qres.op = "initWithParams" /\ qres.bad /\ qres.exc = "Exception"
    /\ Len(gen.oscillators) = gen.dofs
    /\ qres.wf /= None /\ qres.wf /= <<0>> /\ qres.wf[1] /= gen.w_f_global

\* C8: on an initialised generator with a time set, the three queries raise
\* IndexError for every dof outside [0, D), negative ones included, and return
\* a value for every dof inside.
C8_IndexErrorOutsideRange ==
    (qres.op \in QueryOps /\ Len(gen.oscillators) = gen.dofs /\ gen.has_time)
        => IF qres.dof >= 0 /\ qres.dof < gen.dofs
           THEN qres.exc = "" /\ qres.osc = qres.dof + 1
           ELSE qres.exc = "IndexError"

InitOps == {"initWithParams", "initWithRandomParams"}

\* C11: after any sequence of successful initWithRandomParams and
\* initWithParams calls on a generator with D DOFs, the generator holds exactly
\* D oscillators, and every oscillator has len(a) = len(b) = nf and w_f > 0.
C11_OscillatorInvariant ==
    (qres.op \in InitOps /\ qres.all_ok)
        => /\ Len(gen.oscillators) = gen.dofs
           /\ \A i \in 1..Len(gen.oscillators) :
                 /\ Len(gen.oscillators[i].a) = gen.oscillators[i].nf
                 /\ Len(gen.oscillators[i].b) = gen.oscillators[i].nf
                 /\ gen.oscillators[i].w_f > 0

----------------------------------------------------------------------------
(* Specification SpecConstr: testConstraints applied to constraint vectors *)

\* constraint vectors around the tolerance, at most two entries off the base
GFamily(D) ==
    LET vals == {min_tol_constr - 1, min_tol_constr, min_tol_constr + 1}
        base == Rep(min_tol_constr - 1, 5 * D)
    IN  {[[base EXCEPT ![i] = v] EXCEPT ![j] = w] :
            i \in 1..(5 * D), j \in 1..(5 * D), v \in vals, w \in vals}

ConstrInit ==
    /\ px \in {[D |-> D, g |-> g] : D \in 1..MaxDofs, g \in UNION {GFamily(E) : E \in 1..MaxDofs}}
    /\ Len(px.g) = 5 * px.D
    /\ pout = [done |-> FALSE, res |-> FALSE, printed |-> {}]
    /\ opt = None /\ pc = "idle" /\ err = "" /\ run = None /\ ret = None /\ obs = None
    /\ gen = None /\ qres = NoCall

ConstrApply ==
    /\ ~pout.done
    /\ pout' = [done |-> TRUE,
                res |-> testConstraints(px.g, px.D).res,
                printed |-> testConstraints(px.g, px.D).printed]
    /\ UNCHANGED <<px, optVars, genVars>>

ConstrNext == ConstrApply

SpecConstr == ConstrInit /\ [][ConstrNext]_vars

\* the entries of block [lo, hi) (Python indices) that exceed the tolerance
Exceeds(g, lo, hi) == \E k \in lo..(hi - 1) : g[k + 1] > min_tol_constr

\* C9: testConstraints(g) is true iff every entry is <= min_tol_constr, and
\* when it is false a block (angle [0,2D), max velocity [2D,3D), max torque
\* [3D,4D), min velocity [4D,5D)) is flagged exactly when one of its entries
\* exceeds the tolerance; so every violating g flags at least one block.
C9_ConstraintDiagnostics ==
    pout.done =>
        LET D == px.D
            g == px.g
        IN  /\ pout.res = (\A k \in 1..Len(g) : g[k] <= min_tol_constr)
            /\ ~pout.res =>
                /\ ("angle limits" \in pout.printed) = Exceeds(g, 0, 2 * D)
                /\ ("max velocity limits" \in pout.printed) = Exceeds(g, 2 * D, 3 * D)
                /\ ("max torque limits" \in pout.printed) = Exceeds(g, 3 * D, 4 * D)
                /\ ("min velocity limits" \in pout.printed) = Exceeds(g, 4 * D, 5 * D)
                /\ pout.printed /= {}

----------------------------------------------------------------------------
(* Specification SpecCodec: the parameter vector built and decoded *)

\* coefficient matrices: uniform as __init__ fills them (k = 0), or with every
\* entry different (k = 1)
CoeffFamily(D, n) ==
    {[i \in 1..D |-> [j \in 1..n |-> base + k * ((i - 1) * n + j)]] :
        base \in {1, 30}, k \in {0, 1}}

CodecInit ==
    /\ px \in UNION {{[D |-> D, n |-> n, wf0 |-> w, a0 |-> a0, b0 |-> b0] :
                        w \in {wf_min, wf_init}, a0 \in CoeffFamily(D, n),
                        b0 \in CoeffFamily(D, n)} :
                     D \in 1..MaxDofs, n \in (1..MaxNf) \cup {NF}}
    /\ pout = [stage |-> 0, x |-> <<>>, p |-> None]
    /\ opt = None /\ pc = "idle" /\ err = "" /\ run = None /\ ret = None /\ obs = None
    /\ gen = None /\ qres = NoCall

CodecBuild ==
    /\ pout.stage = 0
    /\ pout' = [pout EXCEPT !.stage = 1,
                            !.x = BuildInitial(px.D, px.n, px.wf0, px.a0, px.b0)]
    /\ UNCHANGED <<px, optVars, genVars>>

CodecDecode ==
    /\ pout.stage = 1
    /\ pout' = [pout EXCEPT !.stage = 2, !.p = vecToParams(pout.x, px.D, px.n)]
    /\ UNCHANGED <<px, optVars, genVars>>

CodecNext == CodecBuild \/ CodecDecode

SpecCodec == CodecInit /\ [][CodecNext]_vars

\* C10: the vector has the layout [w_f, q0.., a row-major, b row-major] and the
\* length 1 + D + 2*D*nf, and vecToParams gives back the pulsation, the D zero
\* offsets and a and b as D rows of nf columns.
C10_LayoutRoundTrip ==
    LET D == px.D
        n == px.n
    IN  /\ pout.stage >= 1 =>
            /\ Len(pout.x) = 1 + D + 2 * D * n
            /\ pout.x[1] = px.wf0
            /\ \A i \in 1..D : pout.x[1 + i] = 0
            /\ \A i \in 1..D, j \in 1..n :
                /\ pout.x[1 + D + (i - 1) * n + j] = px.a0[i][j]
                /\ pout.x[1 + D + D * n + (i - 1) * n + j] = px.b0[i][j]
        /\ pout.stage = 2 =>
            /\ pout.p.wf = px.wf0
            /\ pout.p.q = Rep(0, D)
            /\ Len(pout.p.a) = D /\ Len(pout.p.b) = D
            /\ \A i \in 1..D : Len(pout.p.a[i]) = n /\ Len(pout.p.b[i]) = n
            /\ pout.p.a = px.a0
            /\ pout.p.b = px.b0

\* a vector for several joints whose a and b differ entry by entry was decoded
C10_Witness ==
    /\ pout.stage = 2 /\ px.D >= 2 /\ px.n >= 2
    /\ px.a0[1][1] /= px.a0[2][2] /\ px.a0 /= px.b0
    /\ pout.p.a = px.a0

====
